---------------------------- MODULE Spec2Model ----------------------------
(***************************************************************************)
(* Iterative query refinement by relevance feedback.                       *)
(*                                                                         *)
(* The repository holds several variants of one program: main.py (the      *)
(* scikit-learn Rocchio variant with term reordering), joann.py (plain     *)
(* frequency rank), joann-2.py (TF-IDF over the relevant documents),       *)
(* joann-3.py (Rocchio on raw frequencies, non-positive scores dropped)    *)
(* joann-4.py (Rocchio on TF-IDF) and wonjoon.py (the scikit-learn Rocchio  *)
(* variant without reordering).  The variable `variant` says which         *)
(* program runs; every action is that program's code.                      *)
(*                                                                         *)
(* Texts are sequences of one-character strings, so that tokenizing,       *)
(* lower-casing, joining and regular-expression search are computed on     *)
(* characters, as the code does.  The term scores of joann-2.py,           *)
(* joann-3.py and joann-4.py are Python floats: their arithmetic is        *)
(* computed bit by bit, so that signs, ties and the order of the scores    *)
(* are those of the code.                                                  *)
(***************************************************************************)
EXTENDS Integers, Sequences, FiniteSets, TLC

VARIABLES
    variant,      \* which program of the repository runs
    target,       \* target_precision = float(sys.argv[3]), in tenths
    argvQuery,    \* sys.argv[4], the user's initial query (never assigned again)
    query,        \* the current query text
    iteration,    \* main.py's iteration counter; elsewhere the expansions done
    pc,           \* position in main()'s loop
    results,      \* the items of the last search (indices into Corpus)
    relevant,     \* relevant_results of the last feedback collection
    irrelevant,   \* irrelevant_results / non_relevant_results, as last assigned
    precision,    \* [num, den]: the precision of the last collection
    newTerms,     \* augment_by / new_keywords of the last expansion
    outcome,      \* why the loop stopped, or the exception that ended the run
    asked,        \* the result positions for which collect_feedback called input()
    relFreq,      \* term scoring alone: a term's frequency in each relevant document
    nonFreq,      \* term scoring alone: its frequency in each non-relevant document
    sameLists,    \* term scoring alone: whether non_relevant_docs == relevant_docs
    score         \* term scoring alone: the term's score, a float

\* The variables of the refinement loop and those of term scoring taken alone.
loopVars == <<variant, target, argvQuery, query, iteration, pc, results, relevant,
              irrelevant, precision, newTerms, outcome, asked>>

scoreVars == <<relFreq, nonFreq, sameLists, score>>

vars == <<loopVars, scoreVars>>

---------------------------------------------------------------------------
(* Bounds of the model. *)

\* Searches the model follows in one run (the loop itself has no cap).
MaxIter == 2

\* Term scoring taken alone: documents in a partition, occurrences of the term
\* in one document.
MaxDocs == 2
MaxFreq == 3

---------------------------------------------------------------------------
(* Program constants. *)

\* main.py: google_search(..., num=10) and `len(results) < 10`.
PageSize == 10
\* Rocchio weights, in hundredths: alpha = 1.0, beta = 0.75, gamma = 0.15.
AlphaPct == 100
BetaPct == 75
GammaPct == 15
\* Number of new terms an expansion asks for: new_terms[0], new_terms[1],
\* most_common(2).
TopK == 2

---------------------------------------------------------------------------
(* Characters and texts. *)

SP == <<" ">>
DOT == <<".">>

\* The sequence with its elements evaluated: a list, where a function expression
\* is evaluated again on each application.
List(f) == SubSeq(f, 1, Len(f))

\* str.lower() on the characters the texts of the model use.
LowerChar(c) ==
    CASE c = "J" -> "j"
      [] c = "F" -> "f"
      [] c = "C" -> "c"
      [] c = "Z" -> "z"
      [] OTHER -> c

Lower(s) == List([i \in 1..Len(s) |-> LowerChar(s[i])])

\* \w of Python's re: everything of the alphabet but the blank and the full stop.
IsWordChar(c) == c \notin {" ", "."}

\* re.findall(r'\w+', s): the maximal runs of word characters, in order; a run
\* starts at a word character that no word character precedes and ends before
\* the next character that is not one.
Tokenize(s) ==
    LET starts == SelectSeq([i \in 1..Len(s) |-> i],
                            LAMBDA i : IsWordChar(s[i]) /\ (i = 1 \/ ~IsWordChar(s[i - 1])))
        stop(i) == CHOOSE j \in i..Len(s) :
                       /\ \A m \in i..j : IsWordChar(s[m])
                       /\ (j = Len(s) \/ ~IsWordChar(s[j + 1]))
    IN List([k \in 1..Len(starts) |-> SubSeq(s, starts[k], stop(starts[k]))])

\* sep.join(parts)
RECURSIVE Join(_, _)
Join(parts, sep) ==
    IF parts = <<>> THEN <<>>
    ELSE IF Len(parts) = 1 THEN parts[1]
    ELSE parts[1] \o sep \o Join(Tail(parts), sep)

\* s.split("."): the sections between full stops (empty sections kept).
SplitDot(s) ==
    LET dots == {i \in 1..Len(s) : s[i] = "."}
        n == Cardinality(dots)
        cut == [k \in 0..(n + 1) |->
                   IF k = 0 THEN 0
                   ELSE IF k = n + 1 THEN Len(s) + 1
                   ELSE CHOOSE j \in dots : Cardinality({x \in dots : x <= j}) = k]
    IN [k \in 1..(n + 1) |-> SubSeq(s, cut[k - 1] + 1, cut[k] - 1)]

Range(s) == {s[i] : i \in 1..Len(s)}

\* [x for x in s if P(x)] for a set-membership test.
FilterOut(s, drop) == SelectSeq(s, LAMBDA x : x \notin drop)

\* tokens.count(t)
Occurrences(t, tokens) == Cardinality({k \in 1..Len(tokens) : tokens[k] = t})

\* The elements of a sequence in the order of their first occurrence.
Distinct(s) ==
    LET first == SelectSeq([i \in 1..Len(s) |-> i],
                           LAMBDA i : \A m \in 1..(i - 1) : s[m] # s[i])
    IN List([k \in 1..Len(first) |-> s[first[k]]])

---------------------------------------------------------------------------
(* The documents a search can return, the result pages, the stop words.    *)

wJag == <<"J", "a", "g">>
wjag == <<"j", "a", "g">>
wcar == <<"c", "a", "r">>
wCar == <<"C", "a", "r">>
wfast == <<"f", "a", "s", "t">>
wFast == <<"F", "a", "s", "t">>
wzoo == <<"z", "o", "o">>
wZoo == <<"Z", "o", "o">>
wcat == <<"c", "a", "t">>
wthe == <<"t", "h", "e">>
wx == <<"x">>

\* One search item: result['title'], result['snippet'], result.get('fileFormat')
\* ("" when the item has no such key).  Items differ in content, so equality of
\* indices is Python's equality of the item dicts.
Corpus == <<
    [title |-> wFast \o SP \o wcar,
     snippet |-> wfast \o SP \o wcar \o SP \o wjag \o DOT \o SP \o wthe \o SP \o wcar,
     fileFormat |-> ""],
    [title |-> wJag \o SP \o wZoo,
     snippet |-> wthe \o SP \o wzoo \o SP \o wcat \o SP \o wx,
     fileFormat |-> ""],
    [title |-> wJag,
     snippet |-> wthe \o SP \o wjag,
     fileFormat |-> ""],
    [title |-> wCar,
     snippet |-> wfast \o SP \o wjag,
     fileFormat |-> ""],
    [title |-> wZoo,
     snippet |-> wthe \o SP \o wzoo,
     fileFormat |-> "PDF/Adobe Acrobat"] >>

DocIds == 1..Len(Corpus)

\* The lists of items the search engine may answer with (at most num=10 items).
Pages == {
    <<1, 2, 3, 4, 1, 2, 3, 4, 1, 2>>,
    <<5, 5, 5, 5, 5, 5, 5, 5, 5, 5>>,
    <<3, 5, 2>>,
    <<4, 4>>,
    <<>> }

\* The stop words: proj1-stop.txt (joann*.py), stop_words='english' (main.py).
StopWords == {wthe}

\* What the user may type at "Relevant (Y/N)?".
Answers == {"Y", "n", "x"}

\* input(...).strip().lower()
NormalizeAnswer(a) == IF a = "Y" THEN "y" ELSE a

\* The initial queries and target precisions (tenths) a run may be started with.
InitQueries == {wJag, wFast \o SP \o wcar}
Targets == {0, 5, 10}

\* f"{doc['title']} {doc['snippet']}" / doc['title'] + " " + doc['snippet']
Content(d) == Corpus[d].title \o SP \o Corpus[d].snippet

\* re.findall(r'\w+', content.lower()) of each document.
DocTerms == [d \in DocIds |-> Tokenize(Lower(Content(d)))]

---------------------------------------------------------------------------
(* collections.Counter: the keys in insertion order, each with its count   *)
(* (or score).                                                             *)

CounterKeys(c) == List([i \in 1..Len(c) |-> c[i].term])

CounterGet(c, t) ==
    IF \E i \in 1..Len(c) : c[i].term = t
    THEN c[CHOOSE i \in 1..Len(c) : c[i].term = t].n
    ELSE 0

\* Counter(tokens), c.update(tokens): c[t] += 1 for each token in turn, which
\* keeps the keys of c, appends the new ones in the order they are met, and adds
\* to each count the occurrences of the key.
CounterUpdate(c, tokens) ==
    LET keys == Distinct(CounterKeys(c) \o tokens)
    IN List([k \in 1..Len(keys) |->
            [term |-> keys[k], n |-> CounterGet(c, keys[k]) + Occurrences(keys[k], tokens)]])

CounterOf(tokens) == CounterUpdate(<<>>, tokens)

\* The largest value, and among equal values the one inserted last.
LastMax(c) ==
    CHOOSE i \in 1..Len(c) :
        /\ \A j \in 1..Len(c) : c[j].n <= c[i].n
        /\ \A j \in (i + 1)..Len(c) : c[j].n < c[i].n

\* The position of the entry most_common() puts first: the largest value, and
\* among equal values the one inserted first (a stable descending sort).
FirstMax(c) ==
    CHOOSE i \in 1..Len(c) :
        /\ \A j \in 1..Len(c) : c[j].n <= c[i].n
        /\ \A j \in 1..(i - 1) : c[j].n < c[i].n

RemoveAt(c, i) == SubSeq(c, 1, i - 1) \o SubSeq(c, i + 1, Len(c))

\* [term for term, _ in c.most_common(k)]
RECURSIVE MostCommon(_, _)
MostCommon(c, k) ==
    IF k = 0 \/ c = <<>> THEN <<>>
    ELSE LET i == FirstMax(c)
         IN <<c[i].term>> \o MostCommon(RemoveAt(c, i), k - 1)

---------------------------------------------------------------------------
(* Fixed-point arithmetic for the vectors of main.py and wonjoon.py.       *)

\* round(1000 * ln k), k = 1..16
LnTable == <<0, 693, 1099, 1386, 1609, 1792, 1946, 2079,
             2197, 2303, 2398, 2485, 2565, 2639, 2708, 2773>>

LnMilli(k) == LnTable[k]

\* floor(sqrt(x)), by bisection
RECURSIVE SqrtBetween(_, _, _)
SqrtBetween(x, lo, hi) ==
    IF lo >= hi THEN lo
    ELSE LET mid == (lo + hi + 1) \div 2
         IN IF mid * mid <= x THEN SqrtBetween(x, mid, hi)
            ELSE SqrtBetween(x, lo, mid - 1)

ISqrt(x) == SqrtBetween(x, 0, 46340)

RECURSIVE SumSeq(_)
SumSeq(s) == IF s = <<>> THEN 0 ELSE s[1] + SumSeq(Tail(s))

\* The lists of ss one after the other.
RECURSIVE Concat(_)
Concat(ss) == IF ss = <<>> THEN <<>> ELSE ss[1] \o Concat(Tail(ss))

---------------------------------------------------------------------------
(* Python's float: IEEE 754 binary64 arithmetic, rounding to nearest, ties *)
(* to even.                                                                *)

\* Natural numbers of any size: the digits to the base 2^13, lowest first, the
\* highest not 0 (<<>> is 0).
LimbBits == 13
LimbBase == 8192

RECURSIVE Pow2(_)
Pow2(k) == IF k = 0 THEN 1 ELSE 2 * Pow2(k - 1)

RECURSIVE BigOfInt(_)
BigOfInt(k) == IF k = 0 THEN <<>> ELSE <<k % LimbBase>> \o BigOfInt(k \div LimbBase)

RECURSIVE BigTrim(_)
BigTrim(a) ==
    IF a = <<>> \/ a[Len(a)] # 0 THEN a ELSE BigTrim(SubSeq(a, 1, Len(a) - 1))

RECURSIVE BigAddCarry(_, _, _)
BigAddCarry(a, b, carry) ==
    IF a = <<>> /\ b = <<>> THEN BigOfInt(carry)
    ELSE LET x == (IF a = <<>> THEN 0 ELSE a[1]) + (IF b = <<>> THEN 0 ELSE b[1]) + carry
         IN <<x % LimbBase>> \o BigAddCarry(IF a = <<>> THEN a ELSE Tail(a),
                                            IF b = <<>> THEN b ELSE Tail(b),
                                            x \div LimbBase)

BigAdd(a, b) == BigAddCarry(a, b, 0)

\* a - b for a >= b
RECURSIVE BigSubBorrow(_, _, _)
BigSubBorrow(a, b, borrow) ==
    IF a = <<>> THEN <<>>
    ELSE LET x == a[1] - (IF b = <<>> THEN 0 ELSE b[1]) - borrow
         IN <<x % LimbBase>> \o BigSubBorrow(Tail(a), IF b = <<>> THEN b ELSE Tail(b),
                                             IF x < 0 THEN 1 ELSE 0)

BigSub(a, b) == BigTrim(BigSubBorrow(a, b, 0))

\* -1, 0, 1 as a < b, a = b, a > b
RECURSIVE BigCmp(_, _)
BigCmp(a, b) ==
    IF Len(a) # Len(b) THEN (IF Len(a) < Len(b) THEN -1 ELSE 1)
    ELSE IF a = <<>> THEN 0
    ELSE IF a[Len(a)] # b[Len(b)] THEN (IF a[Len(a)] < b[Len(b)] THEN -1 ELSE 1)
    ELSE BigCmp(SubSeq(a, 1, Len(a) - 1), SubSeq(b, 1, Len(b) - 1))

\* a * k for 0 <= k <= 2^13
RECURSIVE BigMulCarry(_, _, _)
BigMulCarry(a, k, carry) ==
    IF a = <<>> THEN BigOfInt(carry)
    ELSE LET x == a[1] * k + carry
         IN <<x % LimbBase>> \o BigMulCarry(Tail(a), k, x \div LimbBase)

BigMulSmall(a, k) == IF k = 0 THEN <<>> ELSE BigMulCarry(a, k, 0)

\* a * 2^(13 n)
BigShiftLimbs(a, n) == IF a = <<>> THEN <<>> ELSE [i \in 1..n |-> 0] \o a

RECURSIVE BigMul(_, _)
BigMul(a, b) ==
    IF a = <<>> \/ b = <<>> THEN <<>>
    ELSE BigAdd(BigMulSmall(a, b[1]), BigShiftLimbs(BigMul(a, Tail(b)), 1))

\* divmod(a, k) for 0 < k <= 2^13
RECURSIVE BigDivMod(_, _)
BigDivMod(a, k) ==
    IF a = <<>> THEN [q |-> <<>>, r |-> 0]
    ELSE LET high == BigDivMod(Tail(a), k)
             x == high.r * LimbBase + a[1]
         IN [q |-> BigTrim(<<x \div k>> \o high.q), r |-> x % k]

\* a * 2^n
BigShl(a, n) == BigMulSmall(BigShiftLimbs(a, n \div LimbBits), Pow2(n % LimbBits))

\* a \div 2^n
BigShr(a, n) ==
    BigDivMod(SubSeq(a, (n \div LimbBits) + 1, Len(a)), Pow2(n % LimbBits)).q

RECURSIVE BitLen(_)
BitLen(k) == IF k = 0 THEN 0 ELSE 1 + BitLen(k \div 2)

BigBitLen(a) == IF a = <<>> THEN 0 ELSE LimbBits * (Len(a) - 1) + BitLen(a[Len(a)])

BigOdd(a) == a # <<>> /\ a[1] % 2 = 1

\* A float (IEEE 754 binary64) is the number sign * mant * 2^exp with mant a
\* natural number of exactly 53 bits, or zero (sign 0, mant <<>>, exp 0).
MantBits == 53

FloatZero == [sign |-> 0, mant |-> <<>>, exp |-> 0]

\* The float nearest to sign * (m + f) * 2^e, ties to the even mantissa, where
\* 0 < f < 1 when sticky and f = 0 otherwise.
FloatRound(sign, m, e, sticky) ==
    LET len == BigBitLen(m)
    IN IF m = <<>> \/ sign = 0 THEN FloatZero
       ELSE IF len <= MantBits
       THEN [sign |-> sign, mant |-> BigShl(m, MantBits - len), exp |-> e - (MantBits - len)]
       ELSE LET drop == len - MantBits
                q == BigShr(m, drop)
                rest == BigSub(m, BigShl(q, drop))
                half == BigCmp(rest, BigShl(<<1>>, drop - 1))
                up == half = 1 \/ (half = 0 /\ (sticky \/ BigOdd(q)))
                r == IF up THEN BigAdd(q, <<1>>) ELSE q
            IN IF BigBitLen(r) > MantBits
               THEN [sign |-> sign, mant |-> BigShr(r, 1), exp |-> e + drop + 1]
               ELSE [sign |-> sign, mant |-> r, exp |-> e + drop]

\* float(k)
FloatOfInt(k) ==
    IF k = 0 THEN FloatZero
    ELSE FloatRound(IF k < 0 THEN -1 ELSE 1, BigOfInt(IF k < 0 THEN 0 - k ELSE k), 0, FALSE)

FloatNeg(x) == [x EXCEPT !.sign = 0 - x.sign]

\* x * y
FloatMul(x, y) == FloatRound(x.sign * y.sign, BigMul(x.mant, y.mant), x.exp + y.exp, FALSE)

\* x / n for an integer 0 < n < 2^10
FloatDivInt(x, n) ==
    LET d == BigDivMod(BigShl(x.mant, 12), n)
    IN FloatRound(x.sign, d.q, x.exp - 12, d.r # 0)

\* -1, 0, 1 as |x| < |y|, |x| = |y|, |x| > |y|
MagCmp(x, y) ==
    IF x.sign = 0 \/ y.sign = 0
    THEN (IF x.sign = 0 /\ y.sign = 0 THEN 0 ELSE IF x.sign = 0 THEN -1 ELSE 1)
    ELSE IF x.exp # y.exp THEN (IF x.exp < y.exp THEN -1 ELSE 1)
    ELSE BigCmp(x.mant, y.mant)

\* x + y (and x - y as x + (-y))
FloatAdd(x, y) ==
    IF x.sign = 0 THEN y
    ELSE IF y.sign = 0 THEN x
    ELSE LET e == IF x.exp < y.exp THEN x.exp ELSE y.exp
             mx == BigShl(x.mant, x.exp - e)
             my == BigShl(y.mant, y.exp - e)
         IN IF x.sign = y.sign THEN FloatRound(x.sign, BigAdd(mx, my), e, FALSE)
            ELSE IF BigCmp(mx, my) = 0 THEN FloatZero
            ELSE IF BigCmp(mx, my) = 1 THEN FloatRound(x.sign, BigSub(mx, my), e, FALSE)
            ELSE FloatRound(y.sign, BigSub(my, mx), e, FALSE)

\* x < y
FloatLess(x, y) ==
    IF x.sign # y.sign THEN x.sign < y.sign
    ELSE IF x.sign = 1 THEN MagCmp(x, y) = -1
    ELSE IF x.sign = -1 THEN MagCmp(x, y) = 1
    ELSE FALSE

\* The float of the decimal literal num / den
FloatOfRatio(num, den) ==
    LET d == BigDivMod(BigShl(BigOfInt(num), 70), den)
    IN FloatRound(1, d.q, -70, d.r # 0)

\* beta, gamma = 0.75, 0.15
beta == FloatOfRatio(BetaPct, 100)
gamma == FloatOfRatio(GammaPct, 100)

\* math.log(a / b) for the integers 1 <= a, b <= 16: row a, column b hold the
\* sign, the exponent and the mantissa of the float.
LogTable == <<
    <<<<0, 0, <<>>>>, <<-1, -53, <<6639, 6097, 4287, 3164, 1>>>>,
       <<-1, -52, <<779, 5480, 6814, 807, 1>>>>, <<-1, -52, <<6639, 6097, 4287, 3164, 1>>>>,
       <<-1, -52, <<3379, 8044, 4221, 4992, 1>>>>, <<-1, -52, <<2, 4433, 766, 6486, 1>>>>,
       <<-1, -52, <<6744, 4498, 7339, 7748, 1>>>>, <<-1, -51, <<2931, 6621, 3215, 325, 1>>>>,
       <<-1, -51, <<779, 5480, 6814, 807, 1>>>>, <<-1, -51, <<5397, 7594, 3182, 1239, 1>>>>,
       <<-1, -51, <<5964, 7161, 6381, 1629, 1>>>>, <<-1, -51, <<7805, 1692, 1455, 1986, 1>>>>,
       <<-1, -51, <<3153, 6540, 266, 2314, 1>>>>, <<-1, -51, <<7080, 5821, 4741, 2617, 1>>>>,
       <<-1, -51, <<2079, 2666, 1422, 2900, 1>>>>, <<-1, -51, <<6639, 6097, 4287, 3164, 1>>>>>>,
    <<<<1, -53, <<6639, 6097, 4287, 3164, 1>>>>, <<0, 0, <<>>>>,
       <<-1, -54, <<6221, 1532, 2299, 5094, 1>>>>, <<-1, -53, <<6639, 6097, 4287, 3164, 1>>>>,
       <<-1, -53, <<119, 1799, 4156, 6820, 1>>>>, <<-1, -52, <<779, 5480, 6814, 807, 1>>>>,
       <<-1, -52, <<7520, 5545, 5195, 2070, 1>>>>, <<-1, -52, <<6639, 6097, 4287, 3164, 1>>>>,
       <<-1, -52, <<2334, 3815, 3293, 4129, 1>>>>, <<-1, -52, <<3379, 8044, 4221, 4992, 1>>>>,
       <<-1, -52, <<4512, 7178, 2427, 5773, 1>>>>, <<-1, -52, <<2, 4433, 766, 6486, 1>>>>,
       <<-1, -52, <<7082, 5935, 6581, 7141, 1>>>>, <<-1, -52, <<6744, 4498, 7339, 7748, 1>>>>,
       <<-1, -51, <<6563, 3189, 350, 61, 1>>>>, <<-1, -51, <<2931, 6621, 3215, 325, 1>>>>>>,
    <<<<1, -52, <<779, 5480, 6814, 807, 1>>>>, <<1, -54, <<6220, 1532, 2299, 5094, 1>>>>,
       <<0, 0, <<>>>>, <<-1, -54, <<7058, 2470, 6276, 1234, 1>>>>,
       <<-1, -53, <<5202, 5128, 3006, 177, 1>>>>, <<-1, -53, <<6639, 6097, 4287, 3164, 1>>>>,
       <<-1, -53, <<3738, 6229, 1049, 5690, 1>>>>, <<-1, -53, <<1976, 7333, 7425, 7877, 1>>>>,
       <<-1, -52, <<779, 5480, 6814, 807, 1>>>>, <<-1, -52, <<1825, 1517, 7743, 1670, 1>>>>,
       <<-1, -52, <<2957, 651, 5949, 2451, 1>>>>, <<-1, -52, <<6639, 6097, 4287, 3164, 1>>>>,
       <<-1, -52, <<5527, 7600, 1910, 3820, 1>>>>, <<-1, -52, <<5189, 6163, 2668, 4427, 1>>>>,
       <<-1, -52, <<3379, 8044, 4221, 4992, 1>>>>, <<-1, -52, <<4308, 6715, 1760, 5521, 1>>>>>>,
    <<<<1, -52, <<6639, 6097, 4287, 3164, 1>>>>, <<1, -53, <<6639, 6097, 4287, 3164, 1>>>>,
       <<1, -54, <<7057, 2470, 6276, 1234, 1>>>>, <<0, 0, <<>>>>,
       <<-1, -55, <<6688, 7380, 7665, 6431, 1>>>>, <<-1, -54, <<6221, 1532, 2299, 5094, 1>>>>,
       <<-1, -53, <<209, 4994, 6103, 976, 1>>>>, <<-1, -53, <<6639, 6097, 4287, 3164, 1>>>>,
       <<-1, -53, <<6220, 1532, 2299, 5094, 1>>>>, <<-1, -53, <<119, 1799, 4156, 6820, 1>>>>,
       <<-1, -52, <<5288, 33, 284, 95, 1>>>>, <<-1, -52, <<779, 5480, 6814, 807, 1>>>>,
       <<-1, -52, <<7859, 6982, 4437, 1463, 1>>>>, <<-1, -52, <<7520, 5545, 5195, 2070, 1>>>>,
       <<-1, -52, <<5711, 7426, 6748, 2635, 1>>>>, <<-1, -52, <<6639, 6097, 4287, 3164, 1>>>>>>,
    <<<<1, -52, <<3379, 8044, 4221, 4992, 1>>>>, <<1, -53, <<120, 1799, 4156, 6820, 1>>>>,
       <<1, -53, <<5202, 5128, 3006, 177, 1>>>>, <<1, -55, <<6690, 7380, 7665, 6431, 1>>>>,
       <<0, 0, <<>>>>, <<-1, -55, <<5749, 3876, 5124, 3756, 1>>>>,
       <<-1, -54, <<5263, 2201, 4278, 2833, 1>>>>, <<-1, -54, <<1742, 4409, 646, 7209, 1>>>>,
       <<-1, -53, <<4547, 5831, 2430, 1438, 1>>>>, <<-1, -53, <<6639, 6097, 4287, 3164, 1>>>>,
       <<-1, -53, <<712, 4366, 699, 4726, 1>>>>, <<-1, -53, <<8076, 7066, 5568, 6151, 1>>>>,
       <<-1, -53, <<5853, 1880, 815, 7463, 1>>>>, <<-1, -52, <<2587, 3599, 5261, 242, 1>>>>,
       <<-1, -52, <<779, 5480, 6814, 807, 1>>>>, <<-1, -52, <<1707, 4151, 4353, 1336, 1>>>>>>,
    <<<<1, -52, <<2, 4433, 766, 6486, 1>>>>, <<1, -52, <<779, 5480, 6814, 807, 1>>>>,
       <<1, -53, <<6639, 6097, 4287, 3164, 1>>>>, <<1, -54, <<6220, 1532, 2299, 5094, 1>>>>,
       <<1, -55, <<5749, 3876, 5124, 3756, 1>>>>, <<0, 0, <<>>>>,
       <<-1, -55, <<4779, 526, 3432, 1910, 1>>>>, <<-1, -54, <<7058, 2470, 6276, 1234, 1>>>>,
       <<-1, -54, <<6221, 1532, 2299, 5094, 1>>>>, <<-1, -53, <<5202, 5128, 3006, 177, 1>>>>,
       <<-1, -53, <<7467, 3396, 7610, 1738, 1>>>>, <<-1, -53, <<6639, 6097, 4287, 3164, 1>>>>,
       <<-1, -53, <<4415, 911, 7726, 4475, 1>>>>, <<-1, -53, <<3738, 6229, 1049, 5690, 1>>>>,
       <<-1, -53, <<119, 1799, 4156, 6820, 1>>>>, <<-1, -53, <<1976, 7333, 7425, 7877, 1>>>>>>,
    <<<<1, -52, <<6743, 4498, 7339, 7748, 1>>>>, <<1, -52, <<7520, 5545, 5195, 2070, 1>>>>,
       <<1, -53, <<3738, 6229, 1049, 5690, 1>>>>, <<1, -53, <<208, 4994, 6103, 976, 1>>>>,
       <<1, -54, <<5263, 2201, 4278, 2833, 1>>>>, <<1, -55, <<4779, 526, 3432, 1910, 1>>>>,
       <<0, 0, <<>>>>, <<-1, -55, <<1148, 4415, 928, 559, 1>>>>,
       <<-1, -54, <<3831, 1269, 583, 43, 1>>>>, <<-1, -54, <<8016, 1801, 4297, 3495, 1>>>>,
       <<-1, -54, <<4353, 6530, 5312, 6618, 1>>>>, <<-1, -53, <<1348, 5966, 7525, 638, 1>>>>,
       <<-1, -53, <<7318, 779, 2772, 1950, 1>>>>, <<-1, -53, <<6639, 6097, 4287, 3164, 1>>>>,
       <<-1, -53, <<3021, 1667, 7394, 4294, 1>>>>, <<-1, -53, <<4878, 7201, 2471, 5352, 1>>>>>>,
    <<<<1, -51, <<2931, 6621, 3215, 325, 1>>>>, <<1, -52, <<6639, 6097, 4287, 3164, 1>>>>,
       <<1, -53, <<1976, 7333, 7425, 7877, 1>>>>, <<1, -53, <<6639, 6097, 4287, 3164, 1>>>>,
       <<1, -54, <<1743, 4409, 646, 7209, 1>>>>, <<1, -54, <<7057, 2470, 6276, 1234, 1>>>>,
       <<1, -55, <<1146, 4415, 928, 559, 1>>>>, <<0, 0, <<>>>>,
       <<-1, -56, <<4842, 4439, 475, 7246, 1>>>>, <<-1, -55, <<6688, 7380, 7665, 6431, 1>>>>,
       <<-1, -54, <<7874, 4322, 752, 2243, 1>>>>, <<-1, -54, <<6221, 1532, 2299, 5094, 1>>>>,
       <<-1, -54, <<1772, 7544, 983, 7717, 1>>>>, <<-1, -53, <<209, 4994, 6103, 976, 1>>>>,
       <<-1, -53, <<4783, 563, 1018, 2107, 1>>>>, <<-1, -53, <<6639, 6097, 4287, 3164, 1>>>>>>,
    <<<<1, -51, <<779, 5480, 6814, 807, 1>>>>, <<1, -52, <<2334, 3815, 3293, 4129, 1>>>>,
       <<1, -52, <<779, 5480, 6814, 807, 1>>>>, <<1, -53, <<6220, 1532, 2299, 5094, 1>>>>,
       <<1, -53, <<4548, 5831, 2430, 1438, 1>>>>, <<1, -54, <<6220, 1532, 2299, 5094, 1>>>>,
       <<1, -54, <<3833, 1269, 583, 43, 1>>>>, <<1, -56, <<4838, 4439, 475, 7246, 1>>>>,
       <<0, 0, <<>>>>, <<-1, -56, <<348, 2130, 6664, 5617, 1>>>>,
       <<-1, -55, <<1040, 2330, 1267, 4959, 1>>>>, <<-1, -54, <<7058, 2470, 6276, 1234, 1>>>>,
       <<-1, -54, <<2612, 290, 4961, 3857, 1>>>>, <<-1, -54, <<1254, 2734, 7992, 6285, 1>>>>,
       <<-1, -53, <<5202, 5128, 3006, 177, 1>>>>, <<-1, -53, <<7058, 2470, 6276, 1234, 1>>>>>>,
    <<<<1, -51, <<5398, 7594, 3182, 1239, 1>>>>, <<1, -52, <<3379, 8044, 4221, 4992, 1>>>>,
       <<1, -52, <<1825, 1517, 7743, 1670, 1>>>>, <<1, -53, <<120, 1799, 4156, 6820, 1>>>>,
       <<1, -53, <<6639, 6097, 4287, 3164, 1>>>>, <<1, -53, <<5202, 5128, 3006, 177, 1>>>>,
       <<1, -54, <<8015, 1801, 4297, 3495, 1>>>>, <<1, -55, <<6690, 7380, 7665, 6431, 1>>>>,
       <<1, -56, <<353, 2130, 6664, 5617, 1>>>>, <<0, 0, <<>>>>,
       <<-1, -56, <<1737, 2530, 4062, 4300, 1>>>>, <<-1, -55, <<5749, 3876, 5124, 3756, 1>>>>,
       <<-1, -54, <<6619, 7949, 1246, 405, 1>>>>, <<-1, -54, <<5263, 2201, 4278, 2833, 1>>>>,
       <<-1, -54, <<6221, 1532, 2299, 5094, 1>>>>, <<-1, -54, <<1742, 4409, 646, 7209, 1>>>>>>,
    <<<<1, -51, <<5964, 7161, 6381, 1629, 1>>>>, <<1, -52, <<4512, 7178, 2427, 5773, 1>>>>,
       <<1, -52, <<2957, 651, 5949, 2451, 1>>>>, <<1, -52, <<5288, 33, 284, 95, 1>>>>,
       <<1, -53, <<713, 4366, 699, 4726, 1>>>>, <<1, -53, <<7466, 3396, 7610, 1738, 1>>>>,
       <<1, -54, <<4352, 6530, 5312, 6618, 1>>>>, <<1, -54, <<7874, 4322, 752, 2243, 1>>>>,
       <<1, -55, <<1045, 2330, 1267, 4959, 1>>>>, <<1, -56, <<1740, 2530, 4062, 4300, 1>>>>,
       <<0, 0, <<>>>>, <<-1, -56, <<1577, 5223, 6186, 3212, 1>>>>,
       <<-1, -55, <<4181, 6442, 462, 2756, 1>>>>, <<-1, -55, <<1469, 3138, 6525, 7612, 1>>>>,
       <<-1, -54, <<1692, 4996, 1283, 1971, 1>>>>, <<-1, -54, <<5404, 7872, 7822, 4085, 1>>>>>>,
    <<<<1, -51, <<7805, 1692, 1455, 1986, 1>>>>, <<1, -52, <<2, 4433, 766, 6486, 1>>>>,
       <<1, -52, <<6639, 6097, 4287, 3164, 1>>>>, <<1, -52, <<779, 5480, 6814, 807, 1>>>>,
       <<1, -53, <<8076, 7066, 5568, 6151, 1>>>>, <<1, -53, <<6639, 6097, 4287, 3164, 1>>>>,
       <<1, -53, <<1348, 5966, 7525, 638, 1>>>>, <<1, -54, <<6220, 1532, 2299, 5094, 1>>>>,
       <<1, -54, <<7057, 2470, 6276, 1234, 1>>>>, <<1, -55, <<5749, 3876, 5124, 3756, 1>>>>,
       <<1, -56, <<1569, 5223, 6186, 3212, 1>>>>, <<0, 0, <<>>>>,
       <<-1, -56, <<6783, 7661, 2930, 2299, 1>>>>, <<-1, -55, <<4779, 526, 3432, 1910, 1>>>>,
       <<-1, -55, <<6688, 7380, 7665, 6431, 1>>>>, <<-1, -54, <<7058, 2470, 6276, 1234, 1>>>>>>,
    <<<<1, -51, <<3153, 6540, 266, 2314, 1>>>>, <<1, -52, <<7082, 5935, 6581, 7141, 1>>>>,
       <<1, -52, <<5527, 7600, 1910, 3820, 1>>>>, <<1, -52, <<7859, 6982, 4437, 1463, 1>>>>,
       <<1, -53, <<5853, 1880, 815, 7463, 1>>>>, <<1, -53, <<4415, 911, 7726, 4475, 1>>>>,
       <<1, -53, <<7318, 779, 2772, 1950, 1>>>>, <<1, -54, <<1773, 7544, 983, 7717, 1>>>>,
       <<1, -54, <<2611, 290, 4961, 3857, 1>>>>, <<1, -54, <<6620, 7949, 1246, 405, 1>>>>,
       <<1, -55, <<4182, 6442, 462, 2756, 1>>>>, <<1, -56, <<6782, 7661, 2930, 2299, 1>>>>,
       <<0, 0, <<>>>>, <<-1, -56, <<2765, 1583, 3933, 1521, 1>>>>,
       <<-1, -55, <<7391, 3549, 2104, 1186, 1>>>>, <<-1, -55, <<6627, 1110, 6991, 5415, 1>>>>>>,
    <<<<1, -51, <<7079, 5821, 4741, 2617, 1>>>>, <<1, -52, <<6743, 4498, 7339, 7748, 1>>>>,
       <<1, -52, <<5189, 6163, 2668, 4427, 1>>>>, <<1, -52, <<7520, 5545, 5195, 2070, 1>>>>,
       <<1, -52, <<2587, 3599, 5261, 242, 1>>>>, <<1, -53, <<3738, 6229, 1049, 5690, 1>>>>,
       <<1, -53, <<6639, 6097, 4287, 3164, 1>>>>, <<1, -53, <<208, 4994, 6103, 976, 1>>>>,
       <<1, -54, <<1255, 2734, 7992, 6285, 1>>>>, <<1, -54, <<5263, 2201, 4278, 2833, 1>>>>,
       <<1, -55, <<1467, 3138, 6525, 7612, 1>>>>, <<1, -55, <<4779, 526, 3432, 1910, 1>>>>,
       <<1, -56, <<2764, 1583, 3933, 1521, 1>>>>, <<0, 0, <<>>>>,
       <<-1, -56, <<3824, 5516, 275, 851, 1>>>>, <<-1, -55, <<1148, 4415, 928, 559, 1>>>>>>,
    <<<<1, -51, <<2079, 2666, 1422, 2900, 1>>>>, <<1, -51, <<6563, 3189, 350, 61, 1>>>>,
       <<1, -52, <<3379, 8044, 4221, 4992, 1>>>>, <<1, -52, <<5711, 7426, 6748, 2635, 1>>>>,
       <<1, -52, <<779, 5480, 6814, 807, 1>>>>, <<1, -53, <<120, 1799, 4156, 6820, 1>>>>,
       <<1, -53, <<3021, 1667, 7394, 4294, 1>>>>, <<1, -53, <<4782, 563, 1018, 2107, 1>>>>,
       <<1, -53, <<5202, 5128, 3006, 177, 1>>>>, <<1, -54, <<6220, 1532, 2299, 5094, 1>>>>,
       <<1, -54, <<1689, 4996, 1283, 1971, 1>>>>, <<1, -55, <<6690, 7380, 7665, 6431, 1>>>>,
       <<1, -55, <<7389, 3549, 2104, 1186, 1>>>>, <<1, -56, <<3823, 5516, 275, 851, 1>>>>,
       <<0, 0, <<>>>>, <<-1, -56, <<6663, 3313, 1581, 267, 1>>>>>>,
    <<<<1, -51, <<6639, 6097, 4287, 3164, 1>>>>, <<1, -51, <<2931, 6621, 3215, 325, 1>>>>,
       <<1, -52, <<4308, 6715, 1760, 5521, 1>>>>, <<1, -52, <<6639, 6097, 4287, 3164, 1>>>>,
       <<1, -52, <<1707, 4151, 4353, 1336, 1>>>>, <<1, -53, <<1976, 7333, 7425, 7877, 1>>>>,
       <<1, -53, <<4878, 7201, 2471, 5352, 1>>>>, <<1, -53, <<6639, 6097, 4287, 3164, 1>>>>,
       <<1, -53, <<7058, 2470, 6276, 1234, 1>>>>, <<1, -54, <<1743, 4409, 646, 7209, 1>>>>,
       <<1, -54, <<5404, 7872, 7822, 4085, 1>>>>, <<1, -54, <<7057, 2470, 6276, 1234, 1>>>>,
       <<1, -55, <<6629, 1110, 6991, 5415, 1>>>>, <<1, -55, <<1146, 4415, 928, 559, 1>>>>,
       <<1, -56, <<6662, 3313, 1581, 267, 1>>>>, <<0, 0, <<>>>>>> >>

MathLog(a, b) ==
    LET e == LogTable[a][b] IN [sign |-> e[1], mant |-> e[3], exp |-> e[2]]

---------------------------------------------------------------------------
(* collections.Counter with float values: term_scores.                     *)

\* term_scores[t] (0 for a missing key)
ScoreGet(c, t) ==
    IF \E i \in 1..Len(c) : c[i].term = t
    THEN c[CHOOSE i \in 1..Len(c) : c[i].term = t].n
    ELSE FloatZero

\* ((x + xs[1]) + xs[2]) + ...
RECURSIVE FloatSum(_, _)
FloatSum(x, xs) == IF xs = <<>> THEN x ELSE FloatSum(FloatAdd(x, xs[1]), Tail(xs))

\* for term, x in pairs: c[term] += x, which keeps the keys of c, appends the
\* new ones in the order they are met, and adds to each value the x of its
\* pairs, one after the other.
AddAll(c, pairs) ==
    LET keys == Distinct(CounterKeys(c) \o [i \in 1..Len(pairs) |-> pairs[i].term])
        added(t) == SelectSeq(pairs, LAMBDA e : e.term = t)
    IN List([k \in 1..Len(keys) |->
            [term |-> keys[k],
             n |-> FloatSum(ScoreGet(c, keys[k]),
                            [i \in 1..Len(added(keys[k])) |-> added(keys[k])[i].n])]])

\* +c: the entries with a positive value, in order.
Positive(c) == SelectSeq(c, LAMBDA e : e.n.sign = 1)

\* The position of the entry most_common() puts first: the largest score, and
\* among equal scores the one inserted first.
FirstMaxScore(c) ==
    CHOOSE i \in 1..Len(c) :
        /\ \A j \in 1..Len(c) : ~FloatLess(c[i].n, c[j].n)
        /\ \A j \in 1..(i - 1) : FloatLess(c[j].n, c[i].n)

\* [term for term, _ in term_scores.most_common(k)]
RECURSIVE MostCommonScores(_, _)
MostCommonScores(c, k) ==
    IF k = 0 \/ c = <<>> THEN <<>>
    ELSE LET i == FirstMaxScore(c)
         IN <<c[i].term>> \o MostCommonScores(RemoveAt(c, i), k - 1)

---------------------------------------------------------------------------
(* Term scoring and selection, one operator per variant's refine_query.    *)

\* original_keywords = set(re.findall(r'\w+', original_query.lower()))
Keywords(q) == Range(Tokenize(Lower(q)))

\* The terms of a document that are neither stop words nor query keywords.
FilteredTerms(d, q) == FilterOut(DocTerms[d], StopWords \cup Keywords(q))

\* A table that counts every occurrence of a term in the scanned documents.
DocFreqPerOccurrence(docs, q) ==
    CounterOf(Concat([i \in 1..Len(docs) |-> FilteredTerms(docs[i], q)]))

\* doc_freq after the scan of the documents: for term in set(filtered_terms):
\* doc_freq[term] += 1, document after document, which counts the terms of the
\* documents' sets of terms taken one after the other.
DocFreqTable(docs, q) ==
    LET unique_terms(i) == Distinct(FilteredTerms(docs[i], q))
    IN CounterOf(Concat([i \in 1..Len(docs) |-> unique_terms(i)]))

\* doc_freq[t]
DocFreq(docs, q, t) == CounterGet(DocFreqTable(docs, q), t)

\* joann.py: counts over the words of all relevant documents, stop words
\* filtered, the query's keywords deleted; the two most common.
RefineJoann(q, rel) ==
    LET words == Concat([i \in 1..Len(rel) |-> DocTerms[rel[i]]])
        word_freq == CounterOf(FilterOut(words, StopWords))
        kept == SelectSeq(word_freq, LAMBDA e : e.term \notin Keywords(q))
    IN MostCommon(kept, TopK)

\* (1 + math.log(freq)) * idf
TfIdf(freq, idf) == FloatMul(FloatAdd(FloatOfInt(1), MathLog(freq, 1)), idf)

\* joann-2.py: idf = math.log(len(relevant_docs) / doc_freq[term]);
\* term_scores[term] += (1 + math.log(freq)) * idf, table by table.
ScoresJoann2(q, rel) ==
    LET tfs == List([i \in 1..Len(rel) |-> CounterOf(FilteredTerms(rel[i], q))])
        doc_freq == DocFreqTable(rel, q)
        idf(t) == MathLog(Len(rel), CounterGet(doc_freq, t))
        pairs == Concat([i \in 1..Len(rel) |->
                    [k \in 1..Len(tfs[i]) |->
                        [term |-> tfs[i][k].term,
                         n |-> TfIdf(tfs[i][k].n, idf(tfs[i][k].term))]]])
    IN AddAll(<<>>, pairs)

RefineJoann2(q, rel) == MostCommonScores(ScoresJoann2(q, rel), TopK)

\* joann-3.py: term_scores[term] += (beta * freq) / len(relevant_docs) for the
\* terms of relevant_tf, then term_scores[term] -= (gamma * freq) /
\* len(non_relevant_docs) for the terms of non_relevant_tf, on the frequencies
\* summed over each partition.
ScoresJoann3(q, rel, nonrel) ==
    LET relevant_tf ==
            CounterOf(Concat([i \in 1..Len(rel) |-> FilteredTerms(rel[i], q)]))
        non_relevant_tf ==
            CounterOf(Concat([i \in 1..Len(nonrel) |-> FilteredTerms(nonrel[i], q)]))
        plus == [k \in 1..Len(relevant_tf) |->
                    [term |-> relevant_tf[k].term,
                     n |-> FloatDivInt(FloatMul(beta, FloatOfInt(relevant_tf[k].n)),
                                       Len(rel))]]
        minus == [k \in 1..Len(non_relevant_tf) |->
                    [term |-> non_relevant_tf[k].term,
                     n |-> FloatNeg(FloatDivInt(
                               FloatMul(gamma, FloatOfInt(non_relevant_tf[k].n)),
                               Len(nonrel)))]]
    IN AddAll(AddAll(<<>>, plus), minus)

\* term_scores = +term_scores; most_common(2)
RefineJoann3(q, rel, nonrel) ==
    MostCommonScores(Positive(ScoresJoann3(q, rel, nonrel)), TopK)

\* joann-4.py: TF-IDF with idf = math.log((total_docs + 1) / (doc_freq[term] + 1))
\* over both partitions; term_scores[term] += beta * tf_idf_score /
\* len(relevant_docs) for each entry of relevant_tf, then term_scores[term] -=
\* gamma * tf_idf_score / len(non_relevant_docs) if len(non_relevant_docs) > 0
\* else 0 for each entry of non_relevant_tf.  `if docs == relevant_docs`
\* compares the lists by value: when the two partitions are equal lists, the
\* non-relevant documents' tables go to relevant_tf as well.
ScoresJoann4(q, rel, nonrel) ==
    LET tfOf(docs) == List([i \in 1..Len(docs) |-> CounterOf(FilteredTerms(docs[i], q))])
        relevant_tf == IF nonrel = rel THEN tfOf(rel) \o tfOf(nonrel) ELSE tfOf(rel)
        non_relevant_tf == IF nonrel = rel THEN <<>> ELSE tfOf(nonrel)
        total_docs == Len(rel) + Len(nonrel)
        doc_freq == DocFreqTable(rel \o nonrel, q)
        idf(t) == MathLog(total_docs + 1, CounterGet(doc_freq, t) + 1)
        tf_idf_score(e) == TfIdf(e.n, idf(e.term))
        plus == Concat([i \in 1..Len(relevant_tf) |->
                    [k \in 1..Len(relevant_tf[i]) |->
                        [term |-> relevant_tf[i][k].term,
                         n |-> FloatDivInt(FloatMul(beta, tf_idf_score(relevant_tf[i][k])),
                                           Len(rel))]]])
        minus == Concat([i \in 1..Len(non_relevant_tf) |->
                    [k \in 1..Len(non_relevant_tf[i]) |->
                        [term |-> non_relevant_tf[i][k].term,
                         n |-> IF Len(nonrel) > 0
                               THEN FloatNeg(FloatDivInt(
                                        FloatMul(gamma, tf_idf_score(non_relevant_tf[i][k])),
                                        Len(nonrel)))
                               ELSE FloatZero]]])
    IN AddAll(AddAll(<<>>, plus), minus)

\* The score joann-3.py gives a term, from the term's frequency in each relevant
\* and each non-relevant document (0 where the term is absent): the term's entry
\* of term_scores (0 when the term has none).
TermScoreJoann3(relF, nonF) ==
    LET plus == IF SumSeq(relF) > 0
                THEN <<FloatDivInt(FloatMul(beta, FloatOfInt(SumSeq(relF))), Len(relF))>>
                ELSE <<>>
        minus == IF SumSeq(nonF) > 0
                 THEN <<FloatNeg(FloatDivInt(FloatMul(gamma, FloatOfInt(SumSeq(nonF))),
                                             Len(nonF)))>>
                 ELSE <<>>
    IN FloatSum(FloatZero, plus \o minus)

\* The same for joann-4.py; `same` says whether non_relevant_docs ==
\* relevant_docs holds.
TermScoreJoann4(relF, nonF, same) ==
    LET present(fs) == SelectSeq(fs, LAMBDA f : f > 0)
        relevant_tf == IF same THEN present(relF) \o present(nonF) ELSE present(relF)
        non_relevant_tf == IF same THEN <<>> ELSE present(nonF)
        total_docs == Len(relF) + Len(nonF)
        doc_freq == Len(present(relF)) + Len(present(nonF))
        idf == MathLog(total_docs + 1, doc_freq + 1)
        plus == [i \in 1..Len(relevant_tf) |->
                    FloatDivInt(FloatMul(beta, TfIdf(relevant_tf[i], idf)), Len(relF))]
        minus == [i \in 1..Len(non_relevant_tf) |->
                    IF Len(nonF) > 0
                    THEN FloatNeg(FloatDivInt(FloatMul(gamma, TfIdf(non_relevant_tf[i], idf)),
                                              Len(nonF)))
                    ELSE FloatZero]
    IN FloatSum(FloatZero, plus \o minus)

\* [word for word, _ in term_scores.most_common(2) if word not in original_keywords]
RefineJoann4(q, rel, nonrel) ==
    FilterOut(MostCommonScores(ScoresJoann4(q, rel, nonrel), TopK), Keywords(q))

\* Whether any of these documents has a term left after the filter.
HasTerms(docs, q) == \E i \in 1..Len(docs) : FilteredTerms(docs[i], q) # <<>>

\* The divisors refine_query evaluates while it scores:
\* joann-2.py  len(relevant_docs) / doc_freq[term], for each term of a table;
\* joann-3.py  / len(relevant_docs) for each term of relevant_tf and
\*             / len(non_relevant_docs) for each term of non_relevant_tf;
\* joann-4.py  / (doc_freq[term] + 1) and / len(relevant_docs) for each entry of
\*             relevant_tf, / len(non_relevant_docs) for each entry of
\*             non_relevant_tf if len(non_relevant_docs) > 0.
ScoringDivisors(v, q, rel, nonrel) ==
    CASE v = "joann2" ->
            {DocFreq(rel, q, t) :
                t \in UNION {Range(FilteredTerms(rel[i], q)) : i \in 1..Len(rel)}}
      [] v = "joann3" ->
            (IF HasTerms(rel, q) THEN {Len(rel)} ELSE {})
                \cup (IF HasTerms(nonrel, q) THEN {Len(nonrel)} ELSE {})
      [] v = "joann4" ->
            LET relevant_tf == IF nonrel = rel THEN rel \o nonrel ELSE rel
                non_relevant_tf == IF nonrel = rel THEN <<>> ELSE nonrel
            IN {DocFreq(rel \o nonrel, q, t) + 1 :
                    t \in UNION {Range(FilteredTerms((rel \o nonrel)[i], q)) :
                                    i \in 1..(Len(rel) + Len(nonrel))}}
                 \cup (IF HasTerms(relevant_tf, q) THEN {Len(rel)} ELSE {})
                 \cup (IF HasTerms(non_relevant_tf, q) /\ Len(nonrel) > 0
                       THEN {Len(nonrel)} ELSE {})
      [] OTHER -> {}

---------------------------------------------------------------------------
(* main.py: refine_query_rocchio.                                          *)

\* TfidfVectorizer(stop_words='english') with its defaults: lower-cased
\* tokens of two or more word characters, stop words removed.
VectorTokens(text) ==
    SelectSeq(Tokenize(Lower(text)), LAMBDA t : Len(t) >= 2 /\ t \notin StopWords)

\* all_texts = [original_query] + relevant_texts + irrelevant_texts, tokenized.
AllTexts(q, rel, irr) ==
    <<VectorTokens(q)>>
        \o [i \in 1..Len(rel) |-> VectorTokens(Content(rel[i]))]
        \o [i \in 1..Len(irr) |-> VectorTokens(Content(irr[i]))]

\* vectorizer.get_feature_names_out(), as a set.
Vocabulary(texts) == UNION {Range(texts[i]) : i \in 1..Len(texts)}

RECURSIVE SetSum(_, _)
SetSum(f, S) ==
    IF S = {} THEN 0
    ELSE LET x == CHOOSE y \in S : TRUE
         IN f[x] + SetSum(f, S \ {x})

\* The smoothed idf of scikit-learn, ln((1 + n) / (1 + df)) + 1, in thousandths.
SmoothIdf(t, texts) ==
    1000 + LnMilli(1 + Len(texts))
         - LnMilli(1 + Cardinality({i \in 1..Len(texts) : t \in Range(texts[i])}))

\* One row of tfidf_matrix: tf * idf, divided by the row's Euclidean norm
\* (norm='l2'), in 1/10000; a row without terms stays zero.
TfidfRow(tokens, texts) ==
    LET raw == [t \in Range(tokens) |-> Occurrences(t, tokens) * SmoothIdf(t, texts)]
        norm == ISqrt(SetSum([t \in Range(tokens) |-> raw[t] * raw[t]], Range(tokens)))
    IN [t \in Vocabulary(texts) |->
            IF t \in Range(tokens) /\ norm > 0 THEN (raw[t] * 10000) \div norm ELSE 0]

\* new_query_vector = alpha * q + beta * mean(relevant) - gamma * mean(irrelevant),
\* scaled by 100 * |relevant| * |irrelevant|.
RocchioVector(q, rel, irr) ==
    LET texts == AllTexts(q, rel, irr)
        rows == [i \in 1..Len(texts) |-> TfidfRow(texts[i], texts)]
        nr == Len(rel)
        ni == Len(irr)
    IN [t \in Vocabulary(texts) |->
            AlphaPct * rows[1][t] * nr * ni
            + BetaPct * SumSeq([i \in 1..nr |-> rows[1 + i][t]]) * ni
            - GammaPct * SumSeq([i \in 1..ni |-> rows[1 + nr + i][t]]) * nr]

\* The features, those of the original query among them.
CandidatesWithKeywords(q, rel, irr) == Vocabulary(AllTexts(q, rel, irr))

\* original_terms = re.findall(r'\w+', original_query.lower())
\* The features that are not in original_terms.
Candidates(q, rel, irr) == Vocabulary(AllTexts(q, rel, irr)) \ Keywords(q)

\* new_terms[:2] for every order np.argsort may give the features: descending by
\* value, features of equal value in any order (the default sort is not stable).
\* Empty when fewer than two features remain (new_terms[1] raises IndexError).
TopTwo(q, rel, irr) ==
    LET v == RocchioVector(q, rel, irr)
        cand == Candidates(q, rel, irr)
    IN {<<t1, t2>> \in cand \X cand :
            /\ t1 # t2
            /\ \A u \in cand : v[u] <= v[t1]
            /\ \A u \in cand \ {t1} : v[u] <= v[t2]}

\* list(permutations(new_query_words)), as positions of the three words.
PermOrder == << <<1, 2, 3>>, <<1, 3, 2>>, <<2, 1, 3>>, <<2, 3, 1>>, <<3, 1, 2>>, <<3, 2, 1>> >>

\* re.match of a literal at position i, case ignored (re.IGNORECASE).
MatchAt(s, i, pat) ==
    /\ i + Len(pat) - 1 <= Len(s)
    /\ \A k \in 1..Len(pat) : LowerChar(s[i + k - 1]) = LowerChar(pat[k])

\* The first position >= from where the literal occurs, 0 when none.
FindFrom(s, pat, from) ==
    LET hits == {i \in from..Len(s) : MatchAt(s, i, pat)}
    IN IF hits = {} THEN 0 ELSE CHOOSE i \in hits : \A j \in hits : i <= j

\* len(re.findall(rf"{a}.*{b}.*{c}", section, re.IGNORECASE)).  A section holds
\* no line break, so the greedy match runs to the last c and no second match
\* can follow: the count is 1 when a, b, c occur in this order without
\* overlapping, else 0.
FindallCount(a, b, c, section) ==
    LET i == FindFrom(section, a, 1)
        j == IF i = 0 THEN 0 ELSE FindFrom(section, b, i + Len(a))
        k == IF j = 0 THEN 0 ELSE FindFrom(section, c, j + Len(b))
    IN IF k = 0 THEN 0 ELSE 1

\* perm_counts[perm] for each permutation, in generation order.
PermCounts(words, rel) ==
    LET relevant_texts_str == Lower(Join([i \in 1..Len(rel) |-> Content(rel[i])], SP))
        sections == SplitDot(relevant_texts_str)
    IN [p \in 1..Len(PermOrder) |->
            SumSeq([x \in 1..Len(sections) |->
                FindallCount(words[PermOrder[p][1]], words[PermOrder[p][2]],
                             words[PermOrder[p][3]], sections[x])])]

MaxOf(s) == CHOOSE m \in Range(s) : \A x \in Range(s) : x <= m

\* The given order, whatever the counts.
BestPermutationNatural(words, rel) == <<1, 2, 3>>

\* The last of the permutations with the highest count.
BestPermutationLast(words, rel) ==
    LET counts == PermCounts(words, rel)
    IN PermOrder[CHOOSE p \in 1..Len(PermOrder) :
                    /\ counts[p] = MaxOf(counts)
                    /\ \A r \in 1..Len(PermOrder) : counts[r] = MaxOf(counts) => r <= p]

\* best_permutation: among the permutations with the highest count, the first
\* that starts with the original query, else the first.
BestPermutation(words, rel) ==
    LET counts == PermCounts(words, rel)
        max_count == MaxOf(counts)
        max_count_perms == SelectSeq([p \in 1..Len(PermOrder) |-> p],
                                     LAMBDA p : counts[p] = max_count)
        startsWithQuery == SelectSeq(max_count_perms,
                                     LAMBDA p : words[PermOrder[p][1]] = words[1])
    IN IF Len(max_count_perms) > 1
       THEN IF startsWithQuery # <<>> THEN PermOrder[startsWithQuery[1]]
            ELSE PermOrder[max_count_perms[1]]
       ELSE IF Len(max_count_perms) = 1 THEN PermOrder[max_count_perms[1]]
       ELSE <<1, 2, 3>>

\* wonjoon.py: new_terms[:2] for every order np.argsort may give the features;
\* the slice holds the one feature that remains, or none, when fewer than two do.
TopTermsWonjoon(q, rel, irr) ==
    LET cand == Candidates(q, rel, irr)
    IN IF Cardinality(cand) >= 2 THEN TopTwo(q, rel, irr)
       ELSE {<<t>> : t \in cand} \cup (IF cand = {} THEN {<<>>} ELSE {})

\* new_query = " ".join(best_permutation)
NewQueryMain(q, terms, rel) ==
    LET words == <<q, terms[1], terms[2]>>
        best == BestPermutation(words, rel)
    IN Join([i \in 1..3 |-> words[best[i]]], SP)

---------------------------------------------------------------------------
(* The refinement loop: main() of each variant.                            *)

Variants == {"main", "joann", "joann2", "joann3", "joann4", "wonjoon"}

\* The variants that keep the non-relevant results of a collection.
KeepsIrrelevant == {"main", "joann3", "joann4"}

Init ==
    /\ variant \in Variants
    /\ target \in Targets
    /\ argvQuery \in InitQueries
    /\ query = argvQuery
    /\ iteration = 0
    /\ pc = "searching"
    /\ results = <<>>
    /\ relevant = <<>>
    /\ irrelevant = <<>>
    /\ precision = [num |-> 0, den |-> 0]
    /\ newTerms = <<>>
    /\ outcome = "running"
    /\ asked = <<>>
    /\ relFreq = <<>>
    /\ nonFreq = <<>>
    /\ sameLists = FALSE
    /\ score = 0

\* A page of fewer than 10 results, whatever the iteration.
TooFewAnyIteration(page, it) == Len(page) < PageSize

\* main.py: if len(results) < 10 and iteration == 0
TooFew(page, it) == Len(page) < PageSize /\ it = 0

\* results = google_search(query, api_key, engine_key, num=10) and, in main.py,
\* the test on the number of results.  The joann variants and wonjoon.py return
\* result['items'], which raises KeyError when the answer has no items: results
\* is then not assigned and keeps the page of the search before.
Search ==
    /\ pc = "searching"
    /\ iteration < MaxIter
    /\ \E page \in Pages :
        /\ Len(page) <= PageSize
        /\ IF variant = "main"
           THEN /\ results' = page
                /\ IF TooFew(page, iteration)
                   THEN pc' = "done" /\ outcome' = "too_few_results"
                   ELSE pc' = "collecting" /\ outcome' = outcome
           ELSE IF page = <<>>
                THEN /\ results' = results
                     /\ pc' = "crashed" /\ outcome' = "KeyError"
                ELSE /\ results' = page
                     /\ pc' = "collecting" /\ outcome' = outcome
    /\ UNCHANGED <<variant, target, argvQuery, query, iteration, relevant,
                   irrelevant, precision, newTerms, asked>>
    /\ UNCHANGED scoreVars

\* The answers the user may give to the results of a page, one per position:
\* a judgment of each document, or "Y" and "n" in turn.
Feedbacks(res) ==
    {[i \in 1..Len(res) |-> j[res[i]]] : j \in [DocIds -> Answers]}
        \cup {[i \in 1..Len(res) |-> IF i % 2 = 1 THEN "Y" ELSE "n"]}

\* enumerate(results): the positions of a page.
Positions(res) == List([i \in 1..Len(res) |-> i])

\* The results at the positions idx, in order.
At(res, idx) == List([k \in 1..Len(idx) |-> res[idx[k]]])

\* main.py: input() is called for the results without a fileFormat.
AskedMain(res) == SelectSeq(Positions(res), LAMBDA i : Corpus[res[i]].fileFormat = "")

\* Every result that was not answered 'y', those with a fileFormat included.
IrrelevantMainNoSkip(res, fb) ==
    At(res, SelectSeq(Positions(res), LAMBDA i : NormalizeAnswer(fb[i]) # "y"))

\* main.py: collect_feedback skips a result with a fileFormat; every other
\* result is relevant on 'y' and irrelevant otherwise.
RelevantMain(res, fb) ==
    At(res, SelectSeq(Positions(res), LAMBDA i : Corpus[res[i]].fileFormat = "" /\ NormalizeAnswer(fb[i]) = "y"))

IrrelevantMain(res, fb) ==
    At(res, SelectSeq(Positions(res), LAMBDA i : Corpus[res[i]].fileFormat = "" /\ NormalizeAnswer(fb[i]) # "y"))

\* joann*.py: relevant on 'y'; joann-3.py and joann-4.py keep the results
\* answered 'n' as non-relevant, a result with another answer is in neither list.
RelevantJoann(res, fb) == At(res, SelectSeq(Positions(res), LAMBDA i : NormalizeAnswer(fb[i]) = "y"))

NonRelevantJoann(res, fb) == At(res, SelectSeq(Positions(res), LAMBDA i : NormalizeAnswer(fb[i]) = "n"))

\* wonjoon.py: [result for result in results if result not in relevant_results],
\* the results that equal no relevant one.
IrrelevantWonjoon(res, rel) ==
    At(res, SelectSeq(Positions(res), LAMBDA i : res[i] \notin Range(rel)))

\* The divisor of the precision: main.py divides by the number of judged results,
\* the joann variants and wonjoon.py by len(results).
PrecisionDen(v, res, rel, irr) ==
    IF v = "main" THEN Len(rel) + Len(irr) ELSE Len(res)

\* collect_feedback(results) and the precision; a zero divisor raises
\* ZeroDivisionError.
CollectFeedback ==
    /\ pc = "collecting"
    /\ \E fb \in Feedbacks(results) :
        LET rel == IF variant = "main" THEN RelevantMain(results, fb)
                   ELSE RelevantJoann(results, fb)
            irr == IF variant = "main" THEN IrrelevantMain(results, fb)
                   ELSE IF variant \in KeepsIrrelevant THEN NonRelevantJoann(results, fb)
                   ELSE IF variant = "wonjoon" THEN irrelevant
                   ELSE <<>>
            den == PrecisionDen(variant, results, rel, irr)
        IN /\ asked' = IF variant = "main" THEN AskedMain(results) ELSE Positions(results)
           /\ IF den = 0
              THEN /\ pc' = "crashed"
                   /\ outcome' = "ZeroDivisionError"
                   /\ IF variant = "main"
                      THEN UNCHANGED <<relevant, irrelevant>>
                      ELSE relevant' = rel /\ irrelevant' = irr
                   /\ UNCHANGED precision
              ELSE /\ pc' = "evaluating"
                   /\ relevant' = rel
                   /\ irrelevant' = irr
                   /\ precision' = [num |-> Len(rel), den |-> den]
                   /\ UNCHANGED outcome
    /\ UNCHANGED <<variant, target, argvQuery, query, iteration, results, newTerms>>
    /\ UNCHANGED scoreVars

\* precision > target_precision
ReachedTargetStrict(p, t) == p.num * 10 > t * p.den

\* precision >= target_precision, both as fractions.
ReachedTarget(p, t) == p.num * 10 >= t * p.den

\* if precision >= target_precision: break / elif precision == 0: break / else
Evaluate ==
    /\ pc = "evaluating"
    /\ IF ReachedTarget(precision, target)
       THEN pc' = "done" /\ outcome' = "target_met"
       ELSE IF precision.num = 0
            THEN pc' = "done" /\ outcome' = "exhausted"
            ELSE pc' = "expanding" /\ outcome' = outcome
    /\ UNCHANGED <<variant, target, argvQuery, query, iteration, results, relevant,
                   irrelevant, precision, newTerms, asked>>
    /\ UNCHANGED scoreVars

\* new_keywords of the joann variants' refine_query.
RefineQuery(v, q, rel, irr) ==
    CASE v = "joann" -> RefineJoann(q, rel)
      [] v = "joann2" -> RefineJoann2(q, rel)
      [] v = "joann3" -> RefineJoann3(q, rel, irr)
      [] v = "joann4" -> RefineJoann4(q, rel, irr)

\* query = f"{query} {' '.join(new_keywords)}"
AppendTerms(q, terms) == q \o SP \o Join(terms, SP)

\* The query augmentation and the loop back; in main.py, iteration += 1.
\* wonjoon.py first assigns irrelevant_results, then appends the string of new
\* terms to the query: query = f"{query} {new_terms}".
Expand ==
    /\ pc = "expanding"
    /\ IF variant = "main"
       THEN /\ UNCHANGED irrelevant
            /\ IF relevant = <<>> \/ irrelevant = <<>>
               THEN \* the mean of no rows divides by zero
                    /\ pc' = "crashed" /\ outcome' = "ZeroDivisionError"
                    /\ UNCHANGED <<query, newTerms, iteration>>
               ELSE IF TopTwo(query, relevant, irrelevant) = {}
               THEN \* new_terms[0] or new_terms[1] does not exist
                    /\ pc' = "crashed" /\ outcome' = "IndexError"
                    /\ UNCHANGED <<query, newTerms, iteration>>
               ELSE \E terms \in TopTwo(query, relevant, irrelevant) :
                    /\ newTerms' = terms
                    /\ query' = NewQueryMain(query, terms, relevant)
                    /\ iteration' = iteration + 1
                    /\ pc' = "searching" /\ outcome' = outcome
       ELSE IF variant = "wonjoon"
       THEN /\ irrelevant' = IrrelevantWonjoon(results, relevant)
            /\ IF relevant = <<>> \/ irrelevant' = <<>>
               THEN \* the mean of no rows divides by zero
                    /\ pc' = "crashed" /\ outcome' = "ZeroDivisionError"
                    /\ UNCHANGED <<query, newTerms, iteration>>
               ELSE \E terms \in TopTermsWonjoon(query, relevant, irrelevant') :
                    /\ newTerms' = terms
                    /\ query' = AppendTerms(query, terms)
                    /\ iteration' = iteration + 1
                    /\ pc' = "searching" /\ outcome' = outcome
       ELSE /\ UNCHANGED irrelevant
            /\ IF 0 \in ScoringDivisors(variant, query, relevant, irrelevant)
               THEN \* a division by zero in refine_query
                    /\ pc' = "crashed" /\ outcome' = "ZeroDivisionError"
                    /\ UNCHANGED <<query, newTerms, iteration>>
               ELSE /\ newTerms' = RefineQuery(variant, query, relevant, irrelevant)
                    /\ query' = AppendTerms(query, newTerms')
                    /\ iteration' = iteration + 1
                    /\ pc' = "searching" /\ outcome' = outcome
    /\ UNCHANGED <<variant, target, argvQuery, results, relevant, precision, asked>>
    /\ UNCHANGED scoreVars

Next == Search \/ CollectFeedback \/ Evaluate \/ Expand

Spec == Init /\ [][Next]_vars

---------------------------------------------------------------------------
(* Term scoring taken alone: refine_query's score of one term as a         *)
(* function of the term's frequencies in the judged documents.             *)

\* Whether the two partitions can be equal lists: only when the term has the
\* same frequencies in both.
SameListsAllowed(relF, nonF) == IF relF = nonF THEN BOOLEAN ELSE {FALSE}

\* term_scores[term] of the variant for these frequencies.
TermScore(v, relF, nonF, same) ==
    IF v = "joann3" THEN TermScoreJoann3(relF, nonF)
    ELSE TermScoreJoann4(relF, nonF, same)

\* Any frequencies of the term in one to MaxDocs relevant and up to MaxDocs
\* non-relevant documents.
ScoreInit ==
    /\ variant \in {"joann3", "joann4"}
    /\ \E nr \in 1..MaxDocs : relFreq \in [1..nr -> 0..MaxFreq]
    /\ \E nn \in 0..MaxDocs : nonFreq \in [1..nn -> 0..MaxFreq]
    /\ sameLists \in SameListsAllowed(relFreq, nonFreq)
    /\ score = TermScore(variant, relFreq, nonFreq, sameLists)
    /\ pc = "scoring"
    /\ target = 0 /\ argvQuery = <<>> /\ query = <<>> /\ iteration = 0
    /\ results = <<>> /\ relevant = <<>> /\ irrelevant = <<>>
    /\ precision = [num |-> 0, den |-> 0]
    /\ newTerms = <<>> /\ outcome = "running" /\ asked = <<>>

\* One more occurrence of the term in one relevant document, all else as before.
RaiseRelevant ==
    /\ pc = "scoring"
    /\ \E i \in 1..Len(relFreq) :
        /\ relFreq[i] < MaxFreq
        /\ relFreq' = [relFreq EXCEPT ![i] = @ + 1]
    /\ nonFreq' = nonFreq
    /\ sameLists' \in SameListsAllowed(relFreq', nonFreq')
    /\ score' = TermScore(variant, relFreq', nonFreq', sameLists')
    /\ UNCHANGED loopVars

\* One more occurrence of the term in one non-relevant document.
RaiseIrrelevant ==
    /\ pc = "scoring"
    /\ \E j \in 1..Len(nonFreq) :
        /\ nonFreq[j] < MaxFreq
        /\ nonFreq' = [nonFreq EXCEPT ![j] = @ + 1]
    /\ relFreq' = relFreq
    /\ sameLists' \in SameListsAllowed(relFreq', nonFreq')
    /\ score' = TermScore(variant, relFreq', nonFreq', sameLists')
    /\ UNCHANGED loopVars

ScoreNext == RaiseRelevant \/ RaiseIrrelevant

ScoreSpec == ScoreInit /\ [][ScoreNext]_vars

---------------------------------------------------------------------------
(* Properties.                                                             *)

\* The lower-cased tokens of a query text.
QueryTokens(q) == Tokenize(Lower(q))

\* An expansion step that hands a new query to the next search.
ExpandedStep == pc = "expanding" /\ pc' = "searching"

\* The orders in which the parts of a query can be put.
Arrangements(parts) ==
    {[i \in 1..Len(parts) |-> parts[f[i]]] :
        f \in {g \in [1..Len(parts) -> 1..Len(parts)] :
                  \A a, b \in 1..Len(parts) : a # b => g[a] # g[b]}}

\* C1: after feedback is collected the loop stops with "target met" when
\* precision >= target, else stops with "exhausted" when precision = 0, else
\* runs the expansion, which issues a new search with the new query; an
\* expansion only runs with 0 < precision < target, a search after the first is
\* only issued by an expansion, and nothing happens after a stop.
C1_Decision ==
    [][ /\ (pc = "evaluating" /\ precision.num * 10 >= target * precision.den)
            => (pc' = "done" /\ outcome' = "target_met")
        /\ (pc = "evaluating" /\ precision.num * 10 < target * precision.den
                /\ precision.num = 0)
            => (pc' = "done" /\ outcome' = "exhausted")
        /\ (pc = "evaluating" /\ precision.num * 10 < target * precision.den
                /\ precision.num > 0)
            => (pc' = "expanding" /\ UNCHANGED <<query, relevant, irrelevant>>)
        /\ pc' = "expanding"
            => (pc = "evaluating" /\ precision.num > 0
                /\ precision.num * 10 < target * precision.den)
        /\ pc = "expanding" => (pc' = "searching" /\ query' # query)
        /\ pc' = "searching" => pc = "expanding"
        /\ pc # "done"
      ]_vars

\* C2: the loop does not go on with a query that no longer changes: a search
\* that follows an expansion is issued with a keyword set that differs from the
\* one of the search before.
C2_NoRepeatOnStaticQuery ==
    [][ExpandedStep => Keywords(query') # Keywords(query)]_vars

\* The terms of the judged documents that are neither stop words nor in the query.
CandidateTerms(q, docs) ==
    UNION {Range(FilteredTerms(docs[i], q)) : i \in 1..Len(docs)}

\* C3: when no document of the iteration holds a candidate term, the expansion
\* ends the loop as precision = 0 does: no exception, no further search.
C3_NoCandidateStops ==
    [][(pc = "expanding" /\ CandidateTerms(query, relevant \o irrelevant) = {})
          => (pc' = "done" /\ outcome' = "exhausted")]_vars

\* The results that count toward main.py's precision: those without a fileFormat.
CountedResults(res) == SelectSeq(res, LAMBDA d : Corpus[d].fileFormat = "")

\* C4: in main.py, once a search has returned no result that counts toward
\* precision, the run stops in DONE: it neither goes on to evaluate or expand
\* nor ends with an exception.
C4_EmptyResultsStop ==
    (/\ variant = "main"
     /\ pc \in {"evaluating", "expanding", "done", "crashed"}
     /\ CountedResults(results) = <<>>)
        => pc = "done"

\* C5: no term an expansion selects is in the keyword set of the query the
\* iteration started with.
C5_Exclusion ==
    [][ExpandedStep => Range(newTerms') \cap Range(QueryTokens(query)) = {}]_vars

\* An expansion selected two terms from documents that also hold the query's keywords.
C5_Witness ==
    /\ pc = "searching"
    /\ iteration = 1
    /\ Len(newTerms) = 2
    /\ \E i \in 1..Len(relevant) :
           Range(QueryTokens(argvQuery)) \cap Range(DocTerms[relevant[i]]) # {}

\* C6: after every expansion step the query handed to the next search is the
\* previous text, intact as one component, and exactly the selected terms, the
\* components joined by single blanks (so the previous text itself when no term
\* was selected); its tokens are those of the previous query and the selected
\* terms, none lost and none twice, and every token of the initial query is
\* among them.
C6_QueryComposition ==
    [][ExpandedStep =>
        /\ \E a \in Arrangements(<<query>> \o newTerms') : query' = Join(a, SP)
        /\ Range(QueryTokens(query')) = Range(QueryTokens(query)) \cup Range(newTerms')
        /\ Len(QueryTokens(query')) = Len(QueryTokens(query)) + Len(newTerms')
        /\ Cardinality(Range(QueryTokens(query'))) = Len(QueryTokens(query'))
        /\ Range(QueryTokens(argvQuery)) \subseteq Range(QueryTokens(query'))
      ]_vars

\* C7: every expansion step of main.py and joann-4.py adds exactly two new
\* terms, the two with the highest scores among the terms outside the query's
\* keyword set, the higher first.
C7_ExactlyTwoTerms ==
    [][(pc = "expanding" /\ variant \in {"main", "joann4"}) =>
        /\ pc' = "searching"
        /\ Len(newTerms') = 2
        /\ newTerms'[1] # newTerms'[2]
        /\ IF variant = "main"
           THEN LET v == RocchioVector(query, relevant, irrelevant)
                IN /\ v[newTerms'[1]] >= v[newTerms'[2]]
                   /\ \A u \in (DOMAIN v) \ (Keywords(query) \cup Range(newTerms')) :
                          v[u] <= v[newTerms'[2]]
           ELSE LET c == ScoresJoann4(query, relevant, irrelevant)
                IN /\ ~FloatLess(ScoreGet(c, newTerms'[1]), ScoreGet(c, newTerms'[2]))
                   /\ \A u \in Range(CounterKeys(c)) \ (Keywords(query) \cup Range(newTerms')) :
                          ~FloatLess(ScoreGet(c, newTerms'[2]), ScoreGet(c, u))
      ]_vars

\* The permutations (as positions in PermOrder) with the highest match count.
TiedAtMax(words, rel) ==
    LET counts == PermCounts(words, rel)
    IN {p \in 1..Len(PermOrder) : \A r \in 1..Len(PermOrder) : counts[r] <= counts[p]}

\* The words of main.py's reordering step, in their given order and permuted.
QueryWords(q, terms) == <<q, terms[1], terms[2]>>

Permuted(words, p) == Join([i \in 1..3 |-> words[PermOrder[p][i]]], SP)

\* C8: main.py's new query is a permutation with the highest match count; among
\* several with that count, one that starts with the original query if there is
\* one, else the first in generation order.
C8_BestPermutation ==
    [][(ExpandedStep /\ variant = "main") =>
        LET words == QueryWords(query, newTerms')
            tied == TiedAtMax(words, relevant)
        IN \E p \in tied :
            /\ query' = Permuted(words, p)
            /\ IF \E r \in tied : PermOrder[r][1] = 1
               THEN PermOrder[p][1] = 1
               ELSE \A r \in tied : p <= r
      ]_vars

\* A first expansion of main.py in which several permutations share a highest
\* count above zero and none of them starts with the original query.
C8_Witness ==
    /\ variant = "main"
    /\ pc = "searching"
    /\ iteration = 1
    /\ LET words == QueryWords(argvQuery, newTerms)
           tied == TiedAtMax(words, relevant)
       IN /\ Cardinality(tied) > 1
          /\ \A p \in tied : PermCounts(words, relevant)[p] > 0
          /\ \A p \in tied : PermOrder[p][1] # 1
          /\ query # Permuted(words, 1)

\* C9: when no permutation matches in the relevant documents' text, main.py's
\* new query is the original query, then term1, then term2.
C9_NaturalOrderOnNoMatch ==
    [][(/\ ExpandedStep
        /\ variant = "main"
        /\ \A p \in 1..Len(PermOrder) :
               PermCounts(QueryWords(query, newTerms'), relevant)[p] = 0)
          => query' = query \o SP \o newTerms'[1] \o SP \o newTerms'[2]]_vars

\* A first expansion of main.py in which no permutation matched.
C9_Witness ==
    /\ variant = "main"
    /\ pc = "searching"
    /\ iteration = 1
    /\ \A p \in 1..Len(PermOrder) :
           PermCounts(QueryWords(argvQuery, newTerms), relevant)[p] = 0
    /\ query = argvQuery \o SP \o newTerms[1] \o SP \o newTerms[2]

\* C10: under the Rocchio policy (joann-3.py, joann-4.py) every term an expansion
\* selects has a score above zero.
C10_PositiveScores ==
    [][(ExpandedStep /\ variant \in {"joann3", "joann4"}) =>
        LET c == IF variant = "joann3"
                 THEN ScoresJoann3(query, relevant, irrelevant)
                 ELSE ScoresJoann4(query, relevant, irrelevant)
        IN \A i \in 1..Len(newTerms') : ScoreGet(c, newTerms'[i]).sign = 1
      ]_vars

\* The frequencies of a term in the documents of a partition, as refine_query
\* counts them.
TermFreqs(t, docs, q) == [i \in 1..Len(docs) |-> Occurrences(t, FilteredTerms(docs[i], q))]

\* The score of a term from its frequencies is the entry of term_scores that the
\* loop's expansion computes.
ScoresAgree ==
    (pc = "expanding" /\ variant \in {"joann3", "joann4"}) =>
        \A t \in CandidateTerms(query, relevant \o irrelevant) :
            ScoreGet(IF variant = "joann3"
                     THEN ScoresJoann3(query, relevant, irrelevant)
                     ELSE ScoresJoann4(query, relevant, irrelevant), t)
                = TermScore(variant, TermFreqs(t, relevant, query),
                            TermFreqs(t, irrelevant, query), irrelevant = relevant)

\* C11: under the Rocchio policy (joann-3.py, joann-4.py), one more occurrence of
\* a term in one relevant document, all else unchanged, does not lower the
\* term's score, and one more occurrence in one non-relevant document does not
\* raise it; a first occurrence (0 to 1) included.
C11_ScoreMonotone ==
    [][ /\ relFreq' # relFreq => ~FloatLess(score', score)
        /\ nonFreq' # nonFreq => ~FloatLess(score, score') ]_vars

\* The documents refine_query scans for its statistics: the relevant ones in
\* joann-2.py, both partitions in joann-4.py.
ScannedDocs == IF variant = "joann2" THEN relevant ELSE relevant \o irrelevant

\* The per-document term-frequency table of each scanned document.
TfTables(docs, q) == [i \in 1..Len(docs) |-> CounterOf(FilteredTerms(docs[i], q))]

\* C12: after the scan of an iteration's documents (joann-2.py, joann-4.py),
\* doc_freq has an entry exactly for the terms of the per-document tables, and
\* for each such term t, 1 <= doc_freq[t] <= number of scanned documents and
\* doc_freq[t] is the number of scanned documents whose table holds t.
C12_DocFreq ==
    (pc = "expanding" /\ variant \in {"joann2", "joann4"}) =>
        LET tables == TfTables(ScannedDocs, query)
            doc_freq == DocFreqTable(ScannedDocs, query)
            holders(t) == {i \in 1..Len(tables) : t \in Range(CounterKeys(tables[i]))}
        IN /\ Range(CounterKeys(doc_freq))
                 = UNION {Range(CounterKeys(tables[i])) : i \in 1..Len(tables)}
           /\ \A t \in Range(CounterKeys(doc_freq)) :
                 /\ 1 <= CounterGet(doc_freq, t)
                 /\ CounterGet(doc_freq, t) <= Len(ScannedDocs)
                 /\ CounterGet(doc_freq, t) = Cardinality(holders(t))

\* A scan in joann-4.py over both partitions in which a term occurs twice in
\* one document, and a term occurs in several documents but not in all.
C12_Witness ==
    /\ pc = "expanding"
    /\ variant = "joann4"
    /\ irrelevant # <<>>
    /\ LET tables == TfTables(ScannedDocs, query)
           doc_freq == DocFreqTable(ScannedDocs, query)
       IN /\ \E i \in 1..Len(tables) : \E k \in 1..Len(tables[i]) :
                 tables[i][k].n >= 2
          /\ \E t \in Range(CounterKeys(doc_freq)) :
                 1 < CounterGet(doc_freq, t) /\ CounterGet(doc_freq, t) < Len(ScannedDocs)

\* C13: the precision the loop decides on is |relevant| / (|relevant| +
\* |irrelevant|) for the two partitions of the iteration's feedback (main.py,
\* joann-3.py), whatever the answers were.
C13_PrecisionOfPartitions ==
    (pc = "evaluating" /\ variant \in {"main", "joann3"}) =>
        /\ Len(relevant) + Len(irrelevant) > 0
        /\ precision.num * (Len(relevant) + Len(irrelevant)) = Len(relevant) * precision.den

\* C14: when every result of an iteration was marked irrelevant, precision is 0
\* and the loop stops in DONE without an expansion: with the reason "exhausted"
\* for a target above 0, and with "target met" for the target 0, which the
\* precision 0 reaches.
C14_AllIrrelevantStops ==
    [][(/\ pc = "evaluating"
        /\ results # <<>>
        /\ relevant = <<>>
        /\ variant \in KeepsIrrelevant => Len(irrelevant) = Len(results))
          => /\ precision.num = 0
             /\ pc' = "done"
             /\ outcome' = IF target = 0 THEN "target_met" ELSE "exhausted"
             /\ UNCHANGED <<query, newTerms, iteration>>]_vars

\* C14 as stated: the reason is "exhausted" for every target in [0,1].
C14_AllIrrelevantExhausted ==
    [][(/\ pc = "evaluating"
        /\ results # <<>>
        /\ relevant = <<>>
        /\ variant \in KeepsIrrelevant => Len(irrelevant) = Len(results))
          => (pc' = "done" /\ outcome' = "exhausted")]_vars

\* main.py stopped as exhausted, with a target above 0, after ten results that
\* were all marked irrelevant.
C14_Witness ==
    /\ variant = "main"
    /\ pc = "done"
    /\ outcome = "exhausted"
    /\ target > 0
    /\ relevant = <<>>
    /\ Len(irrelevant) = PageSize
    /\ newTerms = <<>>

\* The positions in main()'s loop at which the partitions, the precision and the
\* judgments asked are those of the results of the last search.
Collected ==
    \/ pc \in {"evaluating", "expanding"}
    \/ pc = "done" /\ outcome \in {"target_met", "exhausted"}

\* C15: in main.py a result with a fileFormat is in neither partition, no
\* judgment is asked for it, and it counts neither in the numerator nor in the
\* denominator of precision: the judgments asked and the denominator are those
\* of the results without a fileFormat.
C15_NonHtmlExcluded ==
    variant = "main" =>
        /\ \A i \in 1..Len(relevant) : Corpus[relevant[i]].fileFormat = ""
        /\ \A i \in 1..Len(irrelevant) : Corpus[irrelevant[i]].fileFormat = ""
        /\ (Collected \/ pc = "crashed") =>
              /\ \A k \in 1..Len(asked) : Corpus[results[asked[k]]].fileFormat = ""
              /\ Len(asked) = Len(CountedResults(results))
        /\ Collected =>
              /\ Len(relevant) + Len(irrelevant) = Len(CountedResults(results))
              /\ precision = [num |-> Len(relevant), den |-> Len(CountedResults(results))]

\* main.py has collected feedback on a page that holds a result with a
\* fileFormat next to results without one.
C15_Witness ==
    /\ variant = "main"
    /\ pc = "evaluating"
    /\ \E i \in 1..Len(results) : Corpus[results[i]].fileFormat # ""
    /\ 0 < Len(asked) /\ Len(asked) < Len(results)
    /\ precision.den = Len(asked)

\* joann.py: the words of the relevant documents in the order of the scan.
ScanWords(rel) == Concat([i \in 1..Len(rel) |-> DocTerms[rel[i]]])

\* Where the scan meets a term first.
FirstSeen(t, words) == CHOOSE k \in 1..Len(words) : words[k] = t /\ \A m \in 1..(k - 1) : words[m] # t

\* Policy A: the occurrences of a term summed over the relevant documents.
FrequencyScore(t, rel) == SumSeq([i \in 1..Len(rel) |-> Occurrences(t, DocTerms[rel[i]])])

\* t comes before u in Policy A's ranking: a higher score, or the same score and
\* met earlier in the scan.
RanksBefore(t, u, rel) ==
    \/ FrequencyScore(t, rel) > FrequencyScore(u, rel)
    \/ /\ FrequencyScore(t, rel) = FrequencyScore(u, rel)
       /\ FirstSeen(t, ScanWords(rel)) < FirstSeen(u, ScanWords(rel))

\* The terms Policy A ranks: those of the relevant documents that are neither
\* stop words nor keywords of the query.
FrequencyCandidates(q, rel) == Range(ScanWords(rel)) \ (StopWords \cup Keywords(q))

\* What C16 says of a selection `sel` for the query q and the relevant documents.
IsFrequencyTop(sel, q, rel) ==
    LET cand == FrequencyCandidates(q, rel)
    IN /\ Range(sel) \subseteq cand
       /\ Len(sel) = IF Cardinality(cand) < TopK THEN Cardinality(cand) ELSE TopK
       /\ \A i, k \in 1..Len(sel) : i < k => RanksBefore(sel[i], sel[k], rel)
       /\ \A i \in 1..Len(sel) : \A u \in cand \ Range(sel) : RanksBefore(sel[i], u, rel)

\* C16: in joann.py (Policy A) the terms selected are the candidates with the
\* highest sums of occurrences over the relevant documents, the higher first;
\* between equal sums the term met first in the scan of the relevant documents
\* wins, which leaves one possible selection for an input.
C16_FrequencyRank ==
    [][(ExpandedStep /\ variant = "joann") =>
          /\ IsFrequencyTop(newTerms', query, relevant)
          /\ query' = query \o SP \o Join(newTerms', SP)]_vars

\* joann.py selected two terms where the second has the same sum as a candidate
\* that was left out and was met earlier in the scan.
C16_Witness ==
    /\ variant = "joann"
    /\ pc = "searching"
    /\ iteration = 1
    /\ Len(newTerms) = 2
    /\ \E u \in FrequencyCandidates(argvQuery, relevant) \ Range(newTerms) :
           /\ FrequencyScore(u, relevant) = FrequencyScore(newTerms[2], relevant)
           /\ FirstSeen(newTerms[2], ScanWords(relevant)) < FirstSeen(u, ScanWords(relevant))

\* term_scores of the variant for the documents of an iteration.
TermScores(v, q, rel, nonrel) ==
    CASE v = "joann2" -> ScoresJoann2(q, rel)
      [] v = "joann3" -> ScoresJoann3(q, rel, nonrel)
      [] v = "joann4" -> ScoresJoann4(q, rel, nonrel)

\* C17: no run ends in a ZeroDivisionError of the term scoring.  Whenever the
\* loop runs the term scoring of joann-2.py, joann-3.py or joann-4.py, at least
\* one relevant document exists, no divisor that the scoring evaluates is zero,
\* and with an empty non-relevant partition no score is lowered below zero;
\* main.py and wonjoon.py only take the means of partitions that are not empty.
C17_NoZeroDivisor ==
    /\ variant = "main" /\ pc = "expanding" => relevant # <<>> /\ irrelevant # <<>>
    /\ variant = "wonjoon" =>
        /\ outcome # "ZeroDivisionError"
        /\ pc = "expanding" =>
              relevant # <<>> /\ IrrelevantWonjoon(results, relevant) # <<>>
    /\ variant \in {"joann2", "joann3", "joann4"} =>
        /\ outcome # "ZeroDivisionError"
        /\ pc = "expanding" =>
              /\ relevant # <<>>
              /\ 0 \notin ScoringDivisors(variant, query, relevant, irrelevant)
              /\ irrelevant = <<>> =>
                    LET c == TermScores(variant, query, relevant, irrelevant)
                    IN \A k \in 1..Len(c) : c[k].n.sign >= 0

\* C18: in main.py a first search (iteration 0) that returns fewer than 10
\* results ends the loop at once, with no judgment asked, no partition, no
\* precision and no expansion, and nothing happens afterwards; a search of a
\* later iteration never ends the loop, however few results it returns, and the
\* step after it is the feedback collection on the results returned: a judgment
\* is asked for each of their HTML results.
C18_ShortPage ==
    [][variant = "main" =>
          /\ pc = "searching" =>
                IF iteration = 0 /\ Len(results') < PageSize
                THEN /\ pc' = "done"
                     /\ outcome' = "too_few_results"
                     /\ UNCHANGED <<query, iteration, relevant, irrelevant, precision,
                                    newTerms, asked>>
                ELSE /\ pc' = "collecting"
                     /\ outcome' = outcome
          /\ pc = "collecting" =>
                /\ results' = results
                /\ asked' = SelectSeq(Positions(results),
                                      LAMBDA i : Corpus[results[i]].fileFormat = "")
                /\ pc' \in {"evaluating", "crashed"}
          /\ pc = "done" => FALSE]_vars

\* main.py has collected the feedback on a page of fewer than 10 results that a
\* search of a later iteration returned.
C18_Witness ==
    /\ variant = "main"
    /\ iteration >= 1
    /\ pc = "evaluating"
    /\ Len(results) \in 1..(PageSize - 1)
    /\ asked # <<>>
    /\ Len(relevant) + Len(irrelevant) = Len(asked)

=============================================================================
